---------------------------- MODULE Spec2Model ----------------------------
(***************************************************************************)
(* A model of ffspot: main (src/src/main.rs), download and download_track  *)
(* (src/src/download.rs), the resolver (src/src/resolve.rs) and the        *)
(* template engine (src/src/template.rs).                                  *)
(*                                                                         *)
(* Strings that the program takes apart (patterns, rendered text) are      *)
(* sequences of one-character strings; Option<T> is a sequence of length   *)
(* 0 (None) or 1 (Some).                                                   *)
(***************************************************************************)
EXTENDS Integers, Sequences, FiniteSets, TLC

(***************************************************************************)
(* Bounds of the model.                                                    *)
(***************************************************************************)
\* longest member list a container (album, playlist) returns
MaxTracks == 3
\* most resource-exhausted answers the service gives to one get_track call
MaxRateLimits == 2
\* longest pattern given to Template::compile in SpecTemplate
MaxPatLen == 3
\* longest string given to sanitize_string in SpecSanitize
MaxStrLen == 3
\* most tracks of the batch in SpecSeq
MaxBatch == 12

None == <<>>
Some(x) == <<x>>
IsSome(o) == o # <<>>
UnwrapOr(o, d) == IF o = <<>> THEN d ELSE o[1]

(***************************************************************************)
(* template.rs                                                             *)
(***************************************************************************)
\* the field codes of Template::compile and the component each one pushes
CodeComponent ==
    [c \in {"a", "t", "b", "s", "n", "d", "l", "y", "p"} |->
        CASE c = "a" -> "Artists"
          [] c = "t" -> "Title"
          [] c = "b" -> "Album"
          [] c = "s" -> "Seq"
          [] c = "n" -> "Track"
          [] c = "d" -> "Disc"
          [] c = "l" -> "Language"
          [] c = "y" -> "Year"
          [] c = "p" -> "Publisher"]

Literal(s) == [kind |-> "Literal", text |-> s]
Field(k) == [kind |-> k, text |-> <<>>]

CompileOk(comps) == [ok |-> TRUE, panic |-> FALSE, comps |-> comps]
CompileErr == [ok |-> FALSE, panic |-> FALSE, comps |-> <<>>]
\* a slice whose start lies behind its end panics in Rust
CompilePanic == [ok |-> FALSE, panic |-> TRUE, comps |-> <<>>]

\* the push as it would be if only the first byte of a run were kept
PushLiteral_First(comps, s) ==
    IF s # <<>> THEN Append(comps, Literal(SubSeq(s, 1, 1))) ELSE comps

\* lines 84-87 and 103-106: a run of literal text is pushed unless empty
PushLiteral(comps, s) == IF s # <<>> THEN Append(comps, Literal(s)) ELSE comps

\* the match as it would be if a marker at the very end stood for itself
MarkerComponent_Lenient(template, pos) ==
    IF pos + 1 < Len(template) /\ template[pos + 2] \in DOMAIN CodeComponent
    THEN Some(Field(CodeComponent[template[pos + 2]]))
    ELSE IF pos + 1 >= Len(template)
    THEN Some(Literal(<<"%">>))
    ELSE None

\* what the marker at 0-based position pos pushes: the component of the
\* code that follows it, or none when the code is unknown or missing
MarkerComponent(template, pos) ==
    IF pos + 1 < Len(template) /\ template[pos + 2] \in DOMAIN CodeComponent
    THEN Some(Field(CodeComponent[template[pos + 2]]))
    ELSE None

\* the loop of Template::compile from 0-based byte position pos on
RECURSIVE CompileFrom(_, _, _, _)
CompileFrom(template, pos, prev_pos, comps) ==
    IF pos >= Len(template)
    THEN IF prev_pos > Len(template)
         THEN CompilePanic
         ELSE CompileOk(PushLiteral(comps,
                          SubSeq(template, prev_pos + 1, Len(template))))
    ELSE IF template[pos + 1] = "%"
         THEN IF prev_pos > pos
              THEN CompilePanic
              ELSE LET c1 == PushLiteral(comps,
                                SubSeq(template, prev_pos + 1, pos))
                       m == MarkerComponent(template, pos)
                   IN IF IsSome(m)
                      THEN CompileFrom(template, pos + 1, pos + 2,
                                       Append(c1, m[1]))
                      ELSE CompileErr
         ELSE CompileFrom(template, pos + 1, prev_pos, comps)

Compile(template) == CompileFrom(template, 0, 0, <<>>)

\* how a failed compile ends the run: bail!, or a panic
CompileFailure(c) == IF c.panic THEN "panic" ELSE "template"


\* decimal digits of a natural number, as Rust's Display prints them
Digit(d) == SubSeq(<<"0", "1", "2", "3", "4", "5", "6", "7", "8", "9">>,
                   d + 1, d + 1)

RECURSIVE Decimal(_)
Decimal(n) == IF n < 10 THEN Digit(n) ELSE Decimal(n \div 10) \o Digit(n % 10)

\* Display of an i32: a minus sign before the digits of a negative number
DecimalInt(n) == IF n < 0 THEN <<"-">> \o Decimal(0 - n) ELSE Decimal(n)

RECURSIVE Zeros(_)
Zeros(k) == IF k <= 0 THEN <<>> ELSE <<"0">> \o Zeros(k - 1)

\* the sequence number as it would be written with {seq} alone
PadSeq_Unpadded(seq, seq_digits) == Decimal(seq)

\* format!("{seq:0seq_digits$}"): zeros on the left up to the width, and
\* never a digit cut off
PadSeq(seq, seq_digits) ==
    LET d == Decimal(seq) IN Zeros(seq_digits - Len(d)) \o d

\* one arm of the match in Template::resolve; none for a component that
\* no arm renders
RenderComponent(c, fields) ==
    CASE c.kind = "Literal" -> Some(c.text)
      [] c.kind = "Artists" -> Some(fields.artists)
      [] c.kind = "Title" -> Some(fields.title)
      [] c.kind = "Album" -> Some(fields.album)
      [] c.kind = "Seq" -> Some(PadSeq(fields.seq, fields.seq_digits))
      [] c.kind = "Track" -> Some(DecimalInt(fields.track))
      [] c.kind = "Disc" -> Some(DecimalInt(fields.disc))
      [] c.kind = "Language" -> Some(fields.language)
      [] c.kind = "Year" -> Some(DecimalInt(fields.year))
      [] c.kind = "Publisher" -> Some(fields.publisher)
      [] OTHER -> None

ResolveOk(out) == [ok |-> TRUE, out |-> out]
ResolveErr == [ok |-> FALSE, out |-> <<>>]

RECURSIVE ResolveFrom(_, _, _, _)
ResolveFrom(comps, i, fields, output) ==
    IF i > Len(comps)
    THEN ResolveOk(output)
    ELSE LET r == RenderComponent(comps[i], fields)
         IN IF IsSome(r)
            THEN ResolveFrom(comps, i + 1, fields, output \o r[1])
            ELSE ResolveErr

\* Template::resolve
Resolve(comps, fields) == ResolveFrom(comps, 1, fields, <<>>)

\* sanitize_pattern of the unix and of the windows build
SanitizePattern(platform, c) ==
    IF platform = "unix"
    THEN c = "/"
    ELSE c \in {"/", "\\", ":", "*", "?", "\"", "<", ">", "|"}

\* sanitize_string as it would be with replacen(.., 1): only the first
\* matching character becomes a space
SanitizeString_FirstOnly(platform, string) ==
    [i \in 1..Len(string) |->
        IF /\ SanitizePattern(platform, string[i])
           /\ \A j \in 1..(i - 1) : ~SanitizePattern(platform, string[j])
        THEN " " ELSE string[i]]

\* sanitize_string: every matching character becomes one space
SanitizeString(platform, string) ==
    IF \E i \in 1..Len(string) : SanitizePattern(platform, string[i])
    THEN [i \in 1..Len(string) |->
            IF SanitizePattern(platform, string[i]) THEN " " ELSE string[i]]
    ELSE string

\* TemplateFields::sanitize
Sanitize(platform, fields) ==
    [fields EXCEPT !.artists = SanitizeString(platform, fields.artists),
                   !.title = SanitizeString(platform, fields.title),
                   !.album = SanitizeString(platform, fields.album),
                   !.language = SanitizeString(platform, fields.language),
                   !.publisher = SanitizeString(platform, fields.publisher)]

(***************************************************************************)
(* The inputs of a run: the configuration file, the command line and the   *)
(* catalogue of the metadata service.                                      *)
(***************************************************************************)
\* [profiles] of the configuration file: a usable profile for each tier,
\* one with an empty extension, one with a quality that is no tier, one
\* with an extra argument that is no template
Profiles ==
    [n \in {"mp3", "mid", "ogg", "bare", "q128", "badarg"} |->
        CASE n = "mp3" ->
               [quality |-> 320, cover_art |-> TRUE,
                extension |-> <<"m", "p", "3">>,
                args |-> << <<"-", "t">>, <<"%", "t">> >>]
          [] n = "mid" ->
               [quality |-> 160, cover_art |-> FALSE,
                extension |-> <<"o", "g", "g">>,
                args |-> <<>>]
          [] n = "ogg" ->
               [quality |-> 96, cover_art |-> FALSE,
                extension |-> <<"o", "g", "g">>,
                args |-> <<>>]
          [] n = "bare" ->
               [quality |-> 96, cover_art |-> FALSE,
                extension |-> <<>>,
                args |-> <<>>]
          [] n = "q128" ->
               [quality |-> 128, cover_art |-> FALSE,
                extension |-> <<"o", "g", "g">>,
                args |-> <<>>]
          [] n = "badarg" ->
               [quality |-> 160, cover_art |-> FALSE,
                extension |-> <<"o", "g", "g">>,
                args |-> << <<"-", "q">>, <<"%", "q">> >>]]

\* the Config that config::load returned
Config ==
    [output |-> <<"m", "/", "%", "s", " ", "%", "t">>,
     artists_separator |-> <<",">>,
     default_profile |-> "mp3",
     max_filename_len |-> None,
     profiles |-> Profiles]

\* the Args that clap parsed
CliArgs ==
    [output : {None, Some(<<"%", "t", "%">>)},
     skip_existing : BOOLEAN,
     encoding_profile :
         {None, Some("mid"), Some("ogg"), Some("q128"), Some("badarg"),
          Some("flac")},
     external_cover_art : {None, Some(<<"c">>)}]

\* the resource kinds that the regex of parse_spotify_uri lets through
ResourceTypes == {"track", "album", "playlist"}

TrackIds == {1, 2, 3, 4}

\* the Album that every track of the catalogue belongs to, but for its
\* cover images
AlbumOf(covers) ==
    [name |-> <<"L", "P">>, year |-> 1999, label |-> <<"l", "/", "b">>,
     covers |-> covers]

\* the Track that the service holds for each identifier.  Track 1 names
\* two alternatives, and its first alternative names one of its own.
TrackMeta ==
    [id \in TrackIds |->
        CASE id = 1 ->
               [id |-> 1, name |-> <<"A">>, artists |-> << <<"x">> >>,
                number |-> 1, disc_number |-> 1,
                language_of_performance |-> << <<"e", "n">> >>,
                alternatives |-> <<2, 3>>,
                files |-> {"OGG_VORBIS_320"},
                album |-> AlbumOf(<<>>)]
          [] id = 2 ->
               [id |-> 2, name |-> <<"B", "/">>,
                artists |-> << <<"x">>, <<"y">> >>,
                number |-> 2, disc_number |-> 1,
                language_of_performance |-> << <<"e", "n">>, <<"f", "r">> >>,
                alternatives |-> <<4>>,
                files |-> {"OGG_VORBIS_160", "OGG_VORBIS_96"},
                album |-> AlbumOf(<<[id |-> 21, height |-> 64],
                                    [id |-> 22, height |-> 640],
                                    [id |-> 23, height |-> 300]>>)]
          [] id = 3 ->
               [id |-> 3, name |-> <<"C">>, artists |-> << <<"z">> >>,
                number |-> 3, disc_number |-> 1,
                language_of_performance |-> <<>>,
                alternatives |-> <<>>,
                files |-> {"OGG_VORBIS_96"},
                album |-> AlbumOf(<<[id |-> 31, height |-> 300]>>)]
          [] id = 4 ->
               [id |-> 4, name |-> <<"D">>, artists |-> << <<"z">> >>,
                number |-> 12, disc_number |-> 2,
                language_of_performance |-> <<>>,
                alternatives |-> <<>>,
                files |-> {},
                album |-> AlbumOf(<<>>)]]

\* the sequences of at most n elements of S, none of them twice
RECURSIVE SeqsUpTo(_, _)
SeqsUpTo(S, n) ==
    IF n = 0 THEN {<<>>}
    ELSE LET shorter == SeqsUpTo(S, n - 1)
         IN shorter \cup
            UNION {{Append(q, x) :
                      x \in {y \in S : \A i \in 1..Len(q) : q[i] # y}} :
                   q \in shorter}

\* the member lists a container may hold, in the order the service gives
MemberLists == SeqsUpTo(TrackIds, MaxTracks)

VARIABLES
    pc,               \* the statement the run is at
    cli,              \* Args
    resource_type,    \* first capture of parse_spotify_uri
    failure,          \* the error main returned with, "" while there is none
    net,              \* the kinds of network request made so far
    path_template,    \* download: the compiled output template
    profile,          \* download: Option of the selected EncodingProfile
    allowed_formats,  \* download: the priority list of the quality
    profile_ffargs,   \* download: the compiled extra arguments
    members,          \* resolve_tracks: the identifiers to resolve
    tracks,           \* resolve_track_ids: the Vec of resolved tracks
    cur,              \* get_track: the identifier asked for
    phase,            \* resolve_track: "primary" or "alternative" fetch
    attempts,         \* get_track: calls of Track::get in this call
    waits,            \* get_track: sleeps in this call
    rateLimited,      \* resource-exhausted answers given to this call
    gtResult,         \* what get_track returned: "", "ok", or the error
    platform,         \* the build: "unix" or "windows"
    seq,              \* download: the index enumerate() gives the track
    result,           \* download: Option of what download_track returned
    errors,           \* download: the identifiers pushed to errors
    skipped,          \* download: the counter of skipped tracks
    report,           \* download: Option of the counts of the last line
    runs,             \* history: the pipelines started, with their ends
    tnet,             \* history: network requests of the pipeline running
    path_string,      \* download_track: the destination path
    dest,             \* the file at the destination path
    file,             \* download_track: Option of the selected FileId
    cover,            \* download_track: Option of the staged TempFile
    ffargs,           \* download_track: the arguments of the encoder
    streamLen,        \* bytes the decrypted stream turned out to hold
    consumed,         \* bytes read from the decrypted stream
    piped,            \* bytes written to the standard input of the encoder
    stdin,            \* the pipe to the encoder: "none", "open", "closed"
    task,             \* what the blocking task returned, "" before it has
    cleanup,          \* what remove_file did to the destination, if called
    extCover,         \* the external cover file of the directory
    child,            \* Option of the encoder the blocking task holds
    orphans,          \* encoders still alive that no task holds any more
    tpl,              \* the template engine on its own: pattern, fields,
                      \* Option of the compiled template and of the output
    san               \* sanitize_string on its own: the string and Option
                      \* of what one call and a call on its result returned

resolveVars == <<members, tracks, cur, phase, attempts, waits, rateLimited,
                 gtResult>>
configVars == <<path_template, profile, allowed_formats, profile_ffargs>>
inputVars == <<cli, resource_type, platform, tpl, san>>
batchVars == <<seq, result, errors, skipped, report, runs>>
trackVars == <<tnet, path_string, dest, file, cover, ffargs, streamLen,
               consumed, piped, stdin, task, cleanup>>
procVars == <<extCover, child, orphans>>
vars == <<pc, inputVars, failure, net, configVars, resolveVars, batchVars,
          trackVars, procVars>>

\* main returns the error e
Fail(e) == pc' = "failed" /\ failure' = e

(***************************************************************************)
(* main.rs                                                                 *)
(***************************************************************************)
\* main, lines 75-81: login opens the session over the network
Login ==
    /\ pc = "login"
    /\ net' = net \cup {"login"}
    /\ \E connected \in BOOLEAN :
          IF connected
          THEN pc' = "compile_path" /\ UNCHANGED failure
          ELSE Fail("login")
    /\ UNCHANGED <<inputVars, batchVars, trackVars, procVars, configVars, resolveVars>>

(***************************************************************************)
(* download.rs: download, up to the call of resolve_tracks                 *)
(***************************************************************************)
CompilePath ==
    /\ pc = "compile_path"
    /\ LET c == Compile(UnwrapOr(cli.output, Config.output))
       IN IF c.ok
          THEN /\ path_template' = c.comps
               /\ pc' = "select_profile"
               /\ UNCHANGED failure
          ELSE /\ Fail(CompileFailure(c))
               /\ UNCHANGED path_template
    /\ UNCHANGED <<inputVars, batchVars, trackVars, procVars, net, profile, allowed_formats,
                   profile_ffargs, resolveVars>>

SelectProfile ==
    /\ pc = "select_profile"
    /\ LET profile_name == UnwrapOr(cli.encoding_profile,
                                    Config.default_profile)
       IN IF profile_name \in DOMAIN Config.profiles
          THEN /\ profile' = Some(Config.profiles[profile_name])
               /\ pc' = "select_quality"
               /\ UNCHANGED failure
          ELSE /\ Fail("profile")
               /\ UNCHANGED profile
    /\ UNCHANGED <<inputVars, batchVars, trackVars, procVars, net, path_template, allowed_formats,
                   profile_ffargs, resolveVars>>

\* the match on profile.quality: the ladder of each tier, none for others
AllowedFormats(quality) ==
    CASE quality = 320 ->
           Some(<<"OGG_VORBIS_320", "OGG_VORBIS_160", "OGG_VORBIS_96">>)
      [] quality = 160 -> Some(<<"OGG_VORBIS_160", "OGG_VORBIS_96">>)
      [] quality = 96 -> Some(<<"OGG_VORBIS_96">>)
      [] OTHER -> None

SelectQuality ==
    /\ pc = "select_quality"
    /\ LET a == AllowedFormats(profile[1].quality)
       IN IF IsSome(a)
          THEN /\ allowed_formats' = a[1]
               /\ pc' = "compile_args"
               /\ UNCHANGED failure
          ELSE /\ Fail("quality")
               /\ UNCHANGED allowed_formats
    /\ UNCHANGED <<inputVars, batchVars, trackVars, procVars, net, path_template, profile,
                   profile_ffargs, resolveVars>>

\* the loop over profile.args: the compiled templates, or none at the
\* first argument that does not compile
RECURSIVE CompileAll(_, _, _)
CompileAll(args, i, done) ==
    IF i > Len(args)
    THEN Some(done)
    ELSE LET c == Compile(args[i])
         IN IF c.ok THEN CompileAll(args, i + 1, Append(done, c.comps))
            ELSE None

CompileArgs ==
    /\ pc = "compile_args"
    /\ LET a == CompileAll(profile[1].args, 1, <<>>)
       IN IF IsSome(a)
          THEN /\ profile_ffargs' = a[1]
               /\ pc' = "resolve"
               /\ UNCHANGED failure
          ELSE /\ Fail("template")
               /\ UNCHANGED profile_ffargs
    /\ UNCHANGED <<inputVars, batchVars, trackVars, procVars, net, path_template, profile,
                   allowed_formats, resolveVars>>

(***************************************************************************)
(* resolve.rs                                                              *)
(***************************************************************************)
\* a call get_track(session, id), made by resolve_track for its primary
\* or its alternative fetch
CallGetTrack(id, ph) ==
    /\ pc' = "get_track"
    /\ cur' = id
    /\ phase' = ph
    /\ attempts' = 0
    /\ waits' = 0
    /\ rateLimited' = 0
    /\ gtResult' = ""

\* the locals of the resolver once resolve_tracks has returned
ResolverReturned ==
    /\ cur' = 0
    /\ phase' = ""
    /\ attempts' = 0
    /\ waits' = 0
    /\ rateLimited' = 0
    /\ gtResult' = ""

\* resolve_tracks, lines 49-57: decode the identifier, dispatch on the kind
ResolveTracks ==
    /\ pc = "resolve"
    /\ tracks' = <<>>
    /\ \E decoded \in BOOLEAN :
          IF ~decoded
          THEN /\ Fail("bad_id")
               /\ UNCHANGED <<members, cur, phase, attempts, waits,
                              rateLimited, gtResult>>
          ELSE IF resource_type = "track"
          THEN /\ \E id \in TrackIds :
                     members' = <<id>> /\ CallGetTrack(id, "primary")
               /\ UNCHANGED failure
          ELSE /\ pc' = "fetch_container"
               /\ UNCHANGED <<failure, members, cur, phase, attempts, waits,
                              rateLimited, gtResult>>
    /\ UNCHANGED <<inputVars, batchVars, trackVars, procVars, net, configVars>>

\* resolve_tracks, lines 58-60 and 63-65, with the start of
\* resolve_track_ids: Album::get or Playlist::get, with no retry around it
FetchContainer ==
    /\ pc = "fetch_container"
    /\ net' = net \cup {"metadata"}
    /\ \E answer \in {"ok", "rate_limited", "other"} :
          IF answer = "ok"
          THEN /\ \E m \in MemberLists :
                     /\ members' = m
                     /\ IF m = <<>>
                        THEN pc' = "batch" /\ ResolverReturned
                        ELSE CallGetTrack(m[1], "primary")
               /\ UNCHANGED failure
          ELSE /\ Fail(IF answer = "rate_limited" THEN answer ELSE "fetch")
               /\ UNCHANGED <<members, cur, phase, attempts, waits,
                              rateLimited, gtResult>>
    /\ UNCHANGED <<inputVars, batchVars, trackVars, procVars, configVars, tracks>>

\* get_track as it would be with a bounded retry: the second
\* resource-exhausted answer is returned as the error
GetTrackFetch_GivesUp ==
    /\ pc = "get_track"
    /\ net' = net \cup {"metadata"}
    /\ attempts' = attempts + 1
    /\ \E answer \in {"ok", "rate_limited", "other"} :
          CASE answer = "rate_limited" ->
                 /\ rateLimited < MaxRateLimits
                 /\ rateLimited' = rateLimited + 1
                 /\ pc' = IF attempts' >= 2 THEN "gt_ret" ELSE "backoff"
                 /\ gtResult' = IF attempts' >= 2 THEN "rate_limited" ELSE ""
            [] OTHER ->
                 /\ pc' = "gt_ret"
                 /\ gtResult' = answer
                 /\ UNCHANGED rateLimited
    /\ UNCHANGED <<inputVars, batchVars, trackVars, procVars, failure,
                   configVars, members, tracks, cur, phase, waits>>

\* get_track, lines 12-18: one turn of the loop up to the sleep or return
GetTrackFetch ==
    /\ pc = "get_track"
    /\ net' = net \cup {"metadata"}
    /\ attempts' = attempts + 1
    /\ \E answer \in {"ok", "rate_limited", "other"} :
          CASE answer = "rate_limited" ->
                 /\ rateLimited < MaxRateLimits
                 /\ rateLimited' = rateLimited + 1
                 /\ pc' = "backoff"
                 /\ UNCHANGED gtResult
            [] OTHER ->
                 /\ pc' = "gt_ret"
                 /\ gtResult' = answer
                 /\ UNCHANGED rateLimited
    /\ UNCHANGED <<inputVars, batchVars, trackVars, procVars, failure, configVars, members, tracks,
                   cur, phase, waits>>

\* get_track, line 14: the sleep of ten seconds, then the loop again
GetTrackSleep ==
    /\ pc = "backoff"
    /\ waits' = waits + 1
    /\ pc' = "get_track"
    /\ UNCHANGED <<inputVars, batchVars, trackVars, procVars, failure, net, configVars, members,
                   tracks, cur, phase, attempts, rateLimited, gtResult>>

\* resolve_track as it would be if it followed the alternatives of an
\* alternative
Alternative_Recursive(ph, track) ==
    IF track.alternatives # <<>>
    THEN Some(Head(track.alternatives))
    ELSE None

\* resolve_track, line 24: the identifier to fetch in place of the track
\* just fetched, if any
Alternative(ph, track) ==
    IF ph = "primary" /\ track.alternatives # <<>>
    THEN Some(Head(track.alternatives))
    ELSE None

\* a push at the front of the Vec
Push_Front(vec, track) == <<track>> \o vec

\* Vec::push of line 38
Push(vec, track) == Append(vec, track)

\* resolve_track_ids as it would be if it returned the tracks resolved
\* before the error
MemberFailed_Partial ==
    /\ pc' = "batch"
    /\ ResolverReturned
    /\ UNCHANGED <<failure, tracks>>

\* resolve_track_ids, line 38, on an error of resolve_track: the error is
\* returned and the Vec dropped
MemberFailed ==
    /\ Fail("fetch")
    /\ tracks' = <<>>
    /\ UNCHANGED <<cur, phase, attempts, waits, rateLimited, gtResult>>

\* resolve_track after get_track has returned (lines 23-28), and the step
\* of its caller: the push and the next member (lines 37-40), or the
\* one-element Vec (lines 53-55)
ResolveTrack ==
    /\ pc = "gt_ret"
    /\ IF gtResult # "ok"
       THEN MemberFailed
       ELSE LET alt == Alternative(phase, TrackMeta[cur])
            IN IF IsSome(alt)
               THEN /\ CallGetTrack(alt[1], "alternative")
                    /\ UNCHANGED <<failure, tracks>>
               ELSE /\ tracks' = Push(tracks, cur)
                    /\ UNCHANGED failure
                    /\ IF Len(tracks') < Len(members)
                       THEN CallGetTrack(members[Len(tracks') + 1], "primary")
                       ELSE pc' = "batch" /\ ResolverReturned
    /\ UNCHANGED <<inputVars, batchVars, trackVars, procVars, net, configVars, members>>

(***************************************************************************)
(* download.rs: the batch loop of download                                 *)
(***************************************************************************)
Ok(v) == [tag |-> "Ok", val |-> v, err |-> ""]
Err(e) == [tag |-> "Err", val |-> FALSE, err |-> e]

\* line 104: the number of decimal digits of the track count
SeqMaxDigits == Len(Decimal(Len(tracks)))

\* the locals of download_track before and after a call
TrackLocalsCleared ==
    /\ tnet' = {}
    /\ path_string' = <<>>
    /\ dest' = "unknown"
    /\ file' = None
    /\ ffargs' = <<>>
    /\ streamLen' = 0
    /\ consumed' = 0
    /\ piped' = 0
    /\ stdin' = "none"
    /\ task' = ""
    /\ cleanup' = "none"

\* lines 103-109: the counters of the batch
BatchStart ==
    /\ pc = "batch"
    /\ errors' = <<>>
    /\ skipped' = 0
    /\ seq' = 0
    /\ pc' = "loop"
    /\ UNCHANGED <<inputVars, failure, net, configVars, resolveVars, result,
                   report, runs, trackVars, procVars>>

\* lines 111-129: the next track of the iterator and the call of
\* download_track with seq + 1, or the end of the loop.  The last element
\* of runs holds the arguments of the call.
LoopNext ==
    /\ pc = "loop"
    /\ IF seq < Len(tracks)
       THEN /\ pc' = "dt_path"
            /\ runs' = Append(runs, [id |-> tracks[seq + 1], seq |-> seq + 1,
                                     outcome |-> "RUNNING"])
       ELSE /\ pc' = "summary"
            /\ UNCHANGED runs
    /\ UNCHANGED <<inputVars, failure, net, configVars, resolveVars, seq,
                   result, errors, skipped, report, trackVars, procVars>>

\* the match as it would be if Ok(false) fell through to the last arm
Classify_NoSkip(r, errs, skip, track_id) ==
    CASE r.tag = "Err" -> [errors |-> Append(errs, track_id), skipped |-> skip]
      [] OTHER -> [errors |-> errs, skipped |-> skip]

\* lines 131-135: the match on the result of download_track
Classify(r, errs, skip, track_id) ==
    CASE r.tag = "Err" -> [errors |-> Append(errs, track_id), skipped |-> skip]
      [] r.tag = "Ok" /\ ~r.val -> [errors |-> errs, skipped |-> skip + 1]
      [] OTHER -> [errors |-> errs, skipped |-> skip]

\* the loop as it would be with download_track(..).await? in it: the
\* first error of a track is returned from download
LoopMatch_Aborts ==
    /\ pc = "loop_match"
    /\ LET c == Classify(result[1], errors, skipped, tracks[seq + 1])
       IN errors' = c.errors /\ skipped' = c.skipped
    /\ IF result[1].tag = "Err"
       THEN Fail("track")
       ELSE pc' = "loop" /\ UNCHANGED failure
    /\ seq' = seq + 1
    /\ result' = None
    /\ TrackLocalsCleared
    /\ UNCHANGED <<inputVars, net, configVars, resolveVars, report, runs,
                   cover, procVars>>

\* lines 131-136: the result is classified and the loop goes on
LoopMatch ==
    /\ pc = "loop_match"
    /\ LET c == Classify(result[1], errors, skipped, tracks[seq + 1])
       IN errors' = c.errors /\ skipped' = c.skipped
    /\ pc' = "loop"
    /\ seq' = seq + 1
    /\ result' = None
    /\ TrackLocalsCleared
    /\ UNCHANGED <<inputVars, failure, net, configVars, resolveVars, report,
                   runs, cover, procVars>>

\* lines 138-155: the error lines and the last line, then Ok(())
Summary ==
    /\ pc = "summary"
    /\ report' = Some([skipped |-> skipped, error_count |-> Len(errors)])
    /\ pc' = "done"
    /\ UNCHANGED <<inputVars, failure, net, configVars, resolveVars, seq,
                   result, errors, skipped, runs, trackVars, procVars>>

(***************************************************************************)
(* download.rs: download_track                                             *)
(***************************************************************************)
\* the number of leading bytes of the decrypted stream that are dropped
GarbageLen == 167

\* the lengths a decrypted stream may turn out to have
StreamLens == {100, 167, 300}

RECURSIVE Join(_, _)
Join(parts, sep) ==
    IF parts = <<>> THEN <<>>
    ELSE IF Len(parts) = 1 THEN parts[1]
    ELSE parts[1] \o sep \o Join(Tail(parts), sep)

\* lines 174-194: the fields of a track at position n of the batch
TemplateFields(track, n, seq_max_digits) ==
    [artists |-> Join(track.artists, Config.artists_separator),
     title |-> track.name,
     album |-> track.album.name,
     seq |-> n,
     seq_digits |-> seq_max_digits,
     track |-> track.number,
     disc |-> track.disc_number,
     language |-> Join(track.language_of_performance, <<",", " ">>),
     year |-> track.album.year,
     publisher |-> track.album.label]

\* String::truncate
Truncate(string, max_len) ==
    IF max_len < Len(string) THEN SubSeq(string, 1, max_len) ELSE string

\* lines 197-201: the rendered text cut to max_filename_len, a dot and the
\* extension
PathString(rendered, max_filename_len, extension) ==
    (IF IsSome(max_filename_len)
     THEN Truncate(rendered, max_filename_len[1])
     ELSE rendered) \o <<".">> \o extension

\* the pieces of a path between its separators
RECURSIVE Pieces(_, _, _)
Pieces(path, i, piece) ==
    IF i > Len(path) THEN <<piece>>
    ELSE IF path[i] = "/" THEN <<piece>> \o Pieces(path, i + 1, <<>>)
    ELSE Pieces(path, i + 1, Append(piece, path[i]))

\* Path::parent is Some: the path is not empty and does not end in the
\* root (a path under the root all of whose pieces are empty or a dot)
HasParent(path) ==
    /\ path # <<>>
    /\ \/ path[1] # "/"
       \/ LET ps == Pieces(path, 1, <<>>)
          IN \E i \in 1..Len(ps) : ps[i] \notin {<<>>, <<".">>}

\* select_file as it would be if it kept looking after a match: the file
\* of the last allowed format the track has
SelectFile_Last(track, allowed, i) ==
    LET present == {j \in i..Len(allowed) : allowed[j] \in track.files}
    IN IF present = {} THEN None
       ELSE Some([track |-> track.id,
                  format |-> allowed[CHOOSE j \in present :
                                        \A k \in present : k <= j]])

\* select_file: the file of the first allowed format the track has
RECURSIVE SelectFile(_, _, _)
SelectFile(track, allowed, i) ==
    IF i > Len(allowed) THEN None
    ELSE IF allowed[i] \in track.files
    THEN Some([track |-> track.id, format |-> allowed[i]])
    ELSE SelectFile(track, allowed, i + 1)

\* Iterator::max_by_key on the height: the last of the highest images
RECURSIVE MaxByHeight(_, _, _)
MaxByHeight(covers, i, best) ==
    IF i > Len(covers) THEN best
    ELSE MaxByHeight(covers, i + 1,
                     IF covers[i].height >= best.height THEN covers[i]
                     ELSE best)

CoverId(covers) == MaxByHeight(covers, 2, covers[1]).id

\* the track and the sequence number that the pipeline that is running
\* was called with
CurTrack == TrackMeta[runs[Len(runs)].id]
CurSeq == runs[Len(runs)].seq

\* download_track returns r: the TempFile of the cover goes out of scope
Return(r, outcome) ==
    /\ pc' = "loop_match"
    /\ result' = Some(r)
    /\ cover' = None
    /\ runs' = [runs EXCEPT ![Len(runs)].outcome = outcome]

\* lines 174-207: the fields, the path, its parent and the directory
DtPath ==
    /\ pc = "dt_path"
    /\ LET fields == TemplateFields(CurTrack, CurSeq, SeqMaxDigits)
           r == Resolve(path_template, Sanitize(platform, fields))
           p == PathString(r.out, Config.max_filename_len,
                           profile[1].extension)
       IN IF ~r.ok
          THEN /\ Return(Err("render"), "FAILED")
               /\ UNCHANGED <<path_string, dest>>
          ELSE /\ path_string' = p
               /\ IF ~HasParent(p)
                  THEN /\ Return(Err("no_parent"), "FAILED")
                       /\ UNCHANGED dest
                  ELSE \E created \in BOOLEAN :
                          IF created
                          THEN /\ pc' = "dt_skip"
                               /\ dest' \in {"absent", "old"}
                               /\ UNCHANGED <<result, cover, runs>>
                          ELSE /\ Return(Err("create_dir"), "FAILED")
                               /\ UNCHANGED dest
    /\ UNCHANGED <<inputVars, failure, net, configVars, resolveVars, seq,
                   errors, skipped, report, tnet, file, ffargs, streamLen,
                   consumed, piped, stdin, task, cleanup, procVars>>

\* the skip check as it would be without the flag in its condition
DtSkip_IgnoresFlag ==
    /\ pc = "dt_skip"
    /\ IF dest # "absent"
       THEN Return(Ok(FALSE), "SKIPPED")
       ELSE pc' = "dt_file" /\ UNCHANGED <<result, cover, runs>>
    /\ UNCHANGED <<inputVars, failure, net, configVars, resolveVars, seq,
                   errors, skipped, report, tnet, path_string, dest, file,
                   ffargs, streamLen, consumed, piped, stdin, task, cleanup,
                   procVars>>

\* lines 209-211: the skip check
DtSkip ==
    /\ pc = "dt_skip"
    /\ IF cli.skip_existing /\ dest # "absent"
       THEN Return(Ok(FALSE), "SKIPPED")
       ELSE pc' = "dt_file" /\ UNCHANGED <<result, cover, runs>>
    /\ UNCHANGED <<inputVars, failure, net, configVars, resolveVars, seq,
                   errors, skipped, report, tnet, path_string, dest, file,
                   ffargs, streamLen, consumed, piped, stdin, task, cleanup,
                   procVars>>

\* lines 213-221: the file of the best allowed format.  to_base62 of the
\* identifier of a fetched track does not fail.
DtFile ==
    /\ pc = "dt_file"
    /\ LET f == SelectFile(CurTrack, allowed_formats, 1)
       IN IF IsSome(f)
          THEN /\ file' = f
               /\ pc' = "dt_key"
               /\ UNCHANGED <<result, cover, runs>>
          ELSE /\ Return(Err("no_file"), "FAILED")
               /\ UNCHANGED file
    /\ UNCHANGED <<inputVars, failure, net, configVars, resolveVars, seq,
                   errors, skipped, report, tnet, path_string, dest, ffargs,
                   streamLen, consumed, piped, stdin, task, cleanup, procVars>>

\* the request of the key as it would be if its failure were followed by
\* the removal of the destination
DtKey_CleansUp ==
    /\ pc = "dt_key"
    /\ net' = net \cup {"key"}
    /\ tnet' = tnet \cup {"key"}
    /\ \E granted \in BOOLEAN :
          IF granted
          THEN /\ pc' = "dt_stream"
               /\ UNCHANGED <<result, cover, runs, dest, cleanup>>
          ELSE /\ Return(Err("key"), "FAILED")
               /\ dest' = "absent"
               /\ cleanup' = "removed"
    /\ UNCHANGED <<inputVars, failure, configVars, resolveVars, seq, errors,
                   skipped, report, path_string, file, ffargs, streamLen,
                   consumed, piped, stdin, task, procVars>>

\* line 223: the request of the decryption key
DtKey ==
    /\ pc = "dt_key"
    /\ net' = net \cup {"key"}
    /\ tnet' = tnet \cup {"key"}
    /\ \E granted \in BOOLEAN :
          IF granted
          THEN pc' = "dt_stream" /\ UNCHANGED <<result, cover, runs>>
          ELSE Return(Err("key"), "FAILED")
    /\ UNCHANGED <<inputVars, failure, configVars, resolveVars, seq, errors,
                   skipped, report, path_string, dest, file, ffargs,
                   streamLen, consumed, piped, stdin, task, cleanup, procVars>>

\* lines 225-249: the CDN address, the request of the encrypted stream,
\* its content-length, the decrypting reader and the fixed arguments
DtStream ==
    /\ pc = "dt_stream"
    /\ net' = net \cup {"stream"}
    /\ tnet' = tnet \cup {"stream"}
    /\ \E answer \in {"ok", "cdn_url", "http", "content_length"} :
          IF answer = "ok"
          THEN /\ pc' = "dt_cover"
               /\ ffargs' = << <<"-y">>, <<"-hide_banner">>, <<"-loglevel">>,
                              <<"error">>, <<"-i">>, <<"-">> >>
               /\ UNCHANGED <<result, cover, runs>>
          ELSE /\ Return(Err(answer), "FAILED")
               /\ UNCHANGED ffargs
    /\ UNCHANGED <<inputVars, failure, configVars, resolveVars, seq, errors,
                   skipped, report, path_string, dest, file, streamLen,
                   consumed, piped, stdin, task, cleanup, procVars>>

\* the external cover file of the directory is <<"unknown">> while no step
\* has looked at it, <<"absent">>, <<"old">> when it was there before the
\* run, <<"empty">> once created, or the image written into it
Image(id) == <<"image", id>>

\* lines 251-268: the cover is fetched and staged in a temporary file
CoverEmbedded(cover_id) ==
    /\ net' = net \cup {"cover"}
    /\ tnet' = tnet \cup {"cover"}
    /\ UNCHANGED extCover
    /\ \E answer \in {"ok", "get_image", "tempfile", "write"} :
          IF answer = "ok"
          THEN /\ cover' = Some(cover_id)
               /\ ffargs' = ffargs \o << <<"-i">>, <<"tmp", cover_id>> >>
               /\ pc' = "dt_args"
               /\ UNCHANGED <<result, runs>>
          ELSE /\ Return(Err(answer), "FAILED")
               /\ UNCHANGED ffargs

\* the external cover as it would be with create(true) in place of
\* create_new(true): a file that is there is opened and written over
CoverExternal_Overwrites(cover_id) ==
    /\ UNCHANGED ffargs
    /\ \E answer \in {"denied", "get_image", "write", "ok"} :
          IF answer = "denied"
          THEN /\ extCover' = extCover
               /\ Return(Err("create_cover"), "FAILED")
               /\ UNCHANGED <<net, tnet>>
          ELSE /\ net' = net \cup {"cover"}
               /\ tnet' = tnet \cup {"cover"}
               /\ IF answer = "ok"
                  THEN /\ extCover' = Image(cover_id)
                       /\ pc' = "dt_args"
                       /\ UNCHANGED <<result, cover, runs>>
                  ELSE /\ extCover' = <<"empty">>
                       /\ Return(Err(answer), "FAILED")

\* lines 269-287: the cover file is created beside the track unless it is
\* there already, and the cover is fetched and written into a new one
CoverExternal(cover_id) ==
    /\ UNCHANGED ffargs
    /\ \E found \in IF extCover = <<"unknown">>
                    THEN {<<"absent">>, <<"old">>}
                    ELSE {extCover} :
          IF found # <<"absent">>
          THEN \* ErrorKind::AlreadyExists
               /\ extCover' = found
               /\ pc' = "dt_args"
               /\ UNCHANGED <<net, tnet, result, cover, runs>>
          ELSE \E answer \in {"denied", "get_image", "write", "ok"} :
                  IF answer = "denied"
                  THEN /\ extCover' = found
                       /\ Return(Err("create_cover"), "FAILED")
                       /\ UNCHANGED <<net, tnet>>
                  ELSE /\ net' = net \cup {"cover"}
                       /\ tnet' = tnet \cup {"cover"}
                       /\ IF answer = "ok"
                          THEN /\ extCover' = Image(cover_id)
                               /\ pc' = "dt_args"
                               /\ UNCHANGED <<result, cover, runs>>
                          ELSE /\ extCover' = <<"empty">>
                               /\ Return(Err(answer), "FAILED")

\* the cover art as it would be if the external file came first whenever
\* its name is configured
DtCover_ExternalFirst ==
    /\ pc = "dt_cover"
    /\ LET covers == CurTrack.album.covers
       IN IF covers # <<>> /\ IsSome(cli.external_cover_art)
          THEN CoverExternal(CoverId(covers))
          ELSE IF covers # <<>> /\ profile[1].cover_art
          THEN CoverEmbedded(CoverId(covers))
          ELSE /\ pc' = "dt_args"
               /\ UNCHANGED <<net, tnet, result, cover, runs, ffargs,
                              extCover>>
    /\ UNCHANGED <<inputVars, failure, configVars, resolveVars, seq, errors,
                   skipped, report, path_string, dest, file, streamLen,
                   consumed, piped, stdin, task, cleanup, child, orphans>>

\* lines 251-289: the cover art
DtCover ==
    /\ pc = "dt_cover"
    /\ LET covers == CurTrack.album.covers
       IN IF covers # <<>> /\ profile[1].cover_art
          THEN CoverEmbedded(CoverId(covers))
          ELSE IF covers # <<>> /\ IsSome(cli.external_cover_art)
          THEN CoverExternal(CoverId(covers))
          ELSE /\ pc' = "dt_args"
               /\ UNCHANGED <<net, tnet, result, cover, runs, ffargs,
                              extCover>>
    /\ UNCHANGED <<inputVars, failure, configVars, resolveVars, seq, errors,
                   skipped, report, path_string, dest, file, streamLen,
                   consumed, piped, stdin, task, cleanup, child, orphans>>

\* lines 291-292: every extra argument rendered with the plain fields
RECURSIVE RenderArgs(_, _, _, _)
RenderArgs(templates, i, fields, done) ==
    IF i > Len(templates) THEN Some(done)
    ELSE LET r == Resolve(templates[i], fields)
         IN IF r.ok
            THEN RenderArgs(templates, i + 1, fields, Append(done, r.out))
            ELSE None

\* lines 291-297: the extra arguments and the destination path
DtArgs ==
    /\ pc = "dt_args"
    /\ LET fields == TemplateFields(CurTrack, CurSeq, SeqMaxDigits)
           extra == RenderArgs(profile_ffargs, 1, fields, <<>>)
       IN IF IsSome(extra)
          THEN /\ ffargs' = (ffargs \o extra[1]) \o <<path_string>>
               /\ pc' = "dt_spawn"
               /\ UNCHANGED <<result, cover, runs>>
          ELSE /\ Return(Err("render"), "FAILED")
               /\ UNCHANGED ffargs
    /\ UNCHANGED <<inputVars, failure, net, configVars, resolveVars, seq,
                   errors, skipped, report, tnet, path_string, dest, file,
                   streamLen, consumed, piped, stdin, task, cleanup,
                   procVars>>

\* the blocking task returns: its encoder, if it holds one that it has not
\* waited for, lives on without it, and its end of the pipe is dropped
TaskReturns(r) ==
    /\ pc' = "dt_finish"
    /\ task' = r
    /\ child' = None
    /\ orphans' = IF IsSome(child) THEN orphans \cup {child[1]} ELSE orphans
    /\ stdin' = IF stdin = "open" THEN "closed" ELSE stdin

\* lines 299-308: the blocking task spawns the encoder
DtSpawn ==
    /\ pc = "dt_spawn"
    /\ \E spawned \in BOOLEAN :
          IF spawned
          THEN /\ child' = Some(CurSeq)
               /\ stdin' = "open"
               /\ pc' = "dt_discard"
               /\ UNCHANGED <<task, orphans>>
          ELSE TaskReturns("spawn")
    /\ UNCHANGED <<inputVars, failure, net, configVars, resolveVars,
                   batchVars, tnet, path_string, dest, file, cover, ffargs,
                   streamLen, consumed, piped, cleanup, extCover>>

\* the step as it would be without the read of the prefix
DtDiscard_KeepsPrefix ==
    /\ pc = "dt_discard"
    /\ \E len \in StreamLens :
          /\ streamLen' = len
          /\ consumed' = 0
          /\ pc' = "dt_copy"
    /\ UNCHANGED <<inputVars, failure, net, configVars, resolveVars,
                   batchVars, tnet, path_string, dest, file, cover, ffargs,
                   piped, cleanup, extCover, task, child, orphans, stdin>>

\* lines 312-313: read_exact of the first 167 bytes
DtDiscard ==
    /\ pc = "dt_discard"
    /\ \E len \in StreamLens, read \in BOOLEAN :
          /\ streamLen' = len
          /\ IF read /\ len >= GarbageLen
             THEN /\ consumed' = GarbageLen
                  /\ pc' = "dt_copy"
                  /\ UNCHANGED <<task, child, orphans, stdin>>
             ELSE /\ consumed' = IF len < GarbageLen THEN len ELSE 0
                  /\ TaskReturns("read")
    /\ UNCHANGED <<inputVars, failure, net, configVars, resolveVars,
                   batchVars, tnet, path_string, dest, file, cover, ffargs,
                   piped, cleanup, extCover>>

\* lines 315-317: io::copy of the rest of the stream into the pipe, and
\* the end of the pipe dropped
DtCopy ==
    /\ pc = "dt_copy"
    /\ \E copied \in BOOLEAN :
          IF copied
          THEN /\ consumed' = streamLen
               /\ piped' = streamLen - consumed
               /\ stdin' = "closed"
               /\ pc' = "dt_wait"
               /\ UNCHANGED <<task, child, orphans, dest>>
          ELSE /\ UNCHANGED <<consumed, piped>>
               /\ dest' \in {dest, "partial"}
               /\ TaskReturns("copy")
    /\ UNCHANGED <<inputVars, failure, net, configVars, resolveVars,
                   batchVars, tnet, path_string, file, cover, ffargs,
                   streamLen, cleanup, extCover>>

\* lines 319-326: the wait for the encoder and its exit status
DtWait ==
    /\ pc = "dt_wait"
    /\ \E status \in {"success", "exit_code", "signal", "wait"} :
          /\ dest' \in IF status = "success" THEN {"new"}
                       ELSE {dest, "partial"}
          /\ pc' = "dt_finish"
          /\ task' = IF status = "success" THEN "ok" ELSE status
          /\ child' = None
          /\ orphans' = IF status = "wait" THEN orphans \cup {child[1]}
                        ELSE orphans
    /\ UNCHANGED <<inputVars, failure, net, configVars, resolveVars,
                   batchVars, tnet, path_string, file, cover, ffargs,
                   streamLen, consumed, piped, stdin, cleanup, extCover>>

\* the end of the pipeline as it would be with fs::remove_file(path)?: a
\* failed removal is returned in place of the error of the task
DtFinish_RemovalErrorWins ==
    /\ pc = "dt_finish"
    /\ IF task # "ok"
       THEN \E removed \in BOOLEAN :
               IF removed /\ dest # "absent"
               THEN /\ dest' = "absent" /\ cleanup' = "removed"
                    /\ Return(Err(task), "FAILED")
               ELSE /\ cleanup' = "failed" /\ UNCHANGED dest
                    /\ Return(Err("remove"), "FAILED")
       ELSE /\ Return(Ok(TRUE), "SUCCESS")
            /\ UNCHANGED <<dest, cleanup>>
    /\ UNCHANGED <<inputVars, failure, net, configVars, resolveVars, seq,
                   errors, skipped, report, tnet, path_string, file, ffargs,
                   streamLen, consumed, piped, stdin, task, procVars>>

\* lines 329-334: the destination is removed after a failed task, whatever
\* remove_file answers, and the result of the task is returned
DtFinish ==
    /\ pc = "dt_finish"
    /\ IF task # "ok"
       THEN /\ \E removed \in BOOLEAN :
                  IF removed /\ dest # "absent"
                  THEN dest' = "absent" /\ cleanup' = "removed"
                  ELSE cleanup' = "failed" /\ UNCHANGED dest
            /\ Return(Err(task), "FAILED")
       ELSE /\ Return(Ok(TRUE), "SUCCESS")
            /\ UNCHANGED <<dest, cleanup>>
    /\ UNCHANGED <<inputVars, failure, net, configVars, resolveVars, seq,
                   errors, skipped, report, tnet, path_string, file, ffargs,
                   streamLen, consumed, piped, stdin, task, procVars>>

\* an encoder that no task waits for exits on its own
OrphanExits ==
    /\ \E e \in orphans : orphans' = orphans \ {e}
    /\ UNCHANGED <<pc, inputVars, failure, net, configVars, resolveVars,
                   batchVars, trackVars, extCover, child>>

\* the state of a run that has not begun
Idle ==
    /\ failure = ""
    /\ net = {}
    /\ path_template = <<>>
    /\ profile = None
    /\ allowed_formats = <<>>
    /\ profile_ffargs = <<>>
    /\ members = <<>>
    /\ tracks = <<>>
    /\ cur = 0
    /\ phase = ""
    /\ attempts = 0
    /\ waits = 0
    /\ rateLimited = 0
    /\ gtResult = ""
    /\ seq = 0
    /\ result = None
    /\ errors = <<>>
    /\ skipped = 0
    /\ report = None
    /\ runs = <<>>
    /\ tnet = {}
    /\ path_string = <<>>
    /\ dest = "unknown"
    /\ file = None
    /\ cover = None
    /\ ffargs = <<>>
    /\ streamLen = 0
    /\ consumed = 0
    /\ piped = 0
    /\ stdin = "none"
    /\ task = ""
    /\ cleanup = "none"
    /\ extCover = <<"unknown">>
    /\ child = None
    /\ orphans = {}

\* the template engine when the run does not look at it on its own
NoTemplate ==
    [pattern |-> <<>>, fields |-> None, compiled |-> None, output |-> None]

\* sanitize_string when the run does not look at it on its own
NoSanitize == [input |-> <<>>, once |-> None, twice |-> None]

\* main has parsed the command line, loaded the configuration and matched
\* the resource; the build is the unix one
Init ==
    /\ pc = "login"
    /\ cli \in CliArgs
    /\ resource_type \in ResourceTypes
    /\ platform = "unix"
    /\ tpl = NoTemplate
    /\ san = NoSanitize
    /\ Idle

Next ==
    \/ Login
    \/ CompilePath
    \/ SelectProfile
    \/ SelectQuality
    \/ CompileArgs
    \/ ResolveTracks
    \/ FetchContainer
    \/ GetTrackFetch
    \/ GetTrackSleep
    \/ ResolveTrack
    \/ BatchStart
    \/ LoopNext
    \/ DtPath
    \/ DtSkip
    \/ DtFile
    \/ DtKey
    \/ DtStream
    \/ DtCover
    \/ DtArgs
    \/ DtSpawn
    \/ DtDiscard
    \/ DtCopy
    \/ DtWait
    \/ DtFinish
    \/ LoopMatch
    \/ Summary
    \/ OrphanExits

Spec == Init /\ [][Next]_vars

(***************************************************************************)
(* The template engine on its own: a pattern is compiled and the template  *)
(* rendered with a field set.                                              *)
(***************************************************************************)
\* the characters of the patterns: the nine codes, the marker, a letter
\* that is no code and the path separator
PatternChars ==
    {"a", "t", "b", "s", "n", "d", "l", "y", "p", "%", "z", "/"}

RECURSIVE StringsUpTo(_, _)
StringsUpTo(S, n) ==
    IF n = 0 THEN {<<>>}
    ELSE LET shorter == StringsUpTo(S, n - 1)
         IN shorter \cup {Append(q, x) : q \in shorter, x \in S}

Patterns == StringsUpTo(PatternChars, MaxPatLen)

\* the field sets of two tracks of the catalogue, in batches of 12 tracks
FieldSets ==
    {TemplateFields(TrackMeta[2], 3, 2), TemplateFields(TrackMeta[4], 12, 2)}

InitTemplate ==
    /\ pc = "tpl_compile"
    /\ cli = CHOOSE c \in CliArgs : TRUE
    /\ resource_type = "track"
    /\ platform \in {"unix", "windows"}
    /\ \E p \in Patterns, f \in FieldSets :
          tpl = [NoTemplate EXCEPT !.pattern = p, !.fields = Some(f)]
    /\ san = NoSanitize
    /\ Idle

\* Template::compile of the pattern
TplCompile ==
    /\ pc = "tpl_compile"
    /\ LET c == Compile(tpl.pattern)
       IN /\ tpl' = [tpl EXCEPT !.compiled = Some(c)]
          /\ pc' = IF c.ok THEN "tpl_resolve" ELSE "tpl_failed"
    /\ UNCHANGED <<cli, resource_type, platform, san, failure, net,
                   configVars, resolveVars, batchVars, trackVars, procVars>>

\* Template::resolve of the compiled template with the fields
TplResolve ==
    /\ pc = "tpl_resolve"
    /\ tpl' = [tpl EXCEPT
                 !.output = Some(Resolve(tpl.compiled[1].comps, tpl.fields[1]))]
    /\ pc' = "tpl_done"
    /\ UNCHANGED <<cli, resource_type, platform, san, failure, net,
                   configVars, resolveVars, batchVars, trackVars, procVars>>

NextTemplate == TplCompile \/ TplResolve

SpecTemplate == InitTemplate /\ [][NextTemplate]_vars

(***************************************************************************)
(* The batch loop on its own: download after resolve_tracks has returned   *)
(* a playlist that holds one track many times, a track with no audio file  *)
(* so that every pipeline ends at the latest where it selects the file.    *)
(***************************************************************************)
\* a Vec of n copies of the identifier id
Repeat(id, n) == [i \in 1..n |-> id]

InitSeq ==
    /\ pc = "batch"
    /\ cli \in [output : {None}, skip_existing : BOOLEAN,
                encoding_profile : {Some("ogg")},
                external_cover_art : {None}]
    /\ resource_type = "playlist"
    /\ platform = "unix"
    /\ tpl = NoTemplate
    /\ san = NoSanitize
    /\ failure = ""
    /\ net = {"login", "metadata"}
    /\ path_template = Compile(Config.output).comps
    /\ profile = Some(Profiles["ogg"])
    /\ allowed_formats = AllowedFormats(Profiles["ogg"].quality)[1]
    /\ profile_ffargs = <<>>
    /\ \E n \in 1..MaxBatch :
          members = Repeat(4, n) /\ tracks = Repeat(4, n)
    /\ cur = 0 /\ phase = "" /\ attempts = 0 /\ waits = 0
    /\ rateLimited = 0 /\ gtResult = ""
    /\ seq = 0 /\ result = None /\ errors = <<>> /\ skipped = 0
    /\ report = None /\ runs = <<>>
    /\ tnet = {} /\ path_string = <<>> /\ dest = "unknown" /\ file = None
    /\ cover = None /\ ffargs = <<>> /\ streamLen = 0 /\ consumed = 0
    /\ piped = 0 /\ stdin = "none" /\ task = "" /\ cleanup = "none"
    /\ extCover = <<"unknown">> /\ child = None /\ orphans = {}

NextSeq ==
    \/ BatchStart
    \/ LoopNext
    \/ DtPath
    \/ DtSkip
    \/ DtFile
    \/ LoopMatch
    \/ Summary

SpecSeq == InitSeq /\ [][NextSeq]_vars

(***************************************************************************)
(* sanitize_string on its own: a string is sanitized, and the result is    *)
(* sanitized again.                                                        *)
(***************************************************************************)
\* the characters of the strings: a letter, the space and every character
\* that one of the two builds replaces
SanitizeChars ==
    {"a", " ", "/", "\\", ":", "*", "?", "\"", "<", ">", "|"}

InitSanitize ==
    /\ pc = "san_once"
    /\ cli = CHOOSE c \in CliArgs : TRUE
    /\ resource_type = "track"
    /\ platform \in {"unix", "windows"}
    /\ tpl = NoTemplate
    /\ \E string \in StringsUpTo(SanitizeChars, MaxStrLen) :
          san = [NoSanitize EXCEPT !.input = string]
    /\ Idle

\* sanitize_string of the string
SanitizeOnce ==
    /\ pc = "san_once"
    /\ san' = [san EXCEPT !.once = Some(SanitizeString(platform, san.input))]
    /\ pc' = "san_again"
    /\ UNCHANGED <<cli, resource_type, platform, tpl, failure, net,
                   configVars, resolveVars, batchVars, trackVars, procVars>>

\* sanitize_string of what the first call returned
SanitizeAgain ==
    /\ pc = "san_again"
    /\ san' = [san EXCEPT
                 !.twice = Some(SanitizeString(platform, san.once[1]))]
    /\ pc' = "san_done"
    /\ UNCHANGED <<cli, resource_type, platform, tpl, failure, net,
                   configVars, resolveVars, batchVars, trackVars, procVars>>

NextSanitize == SanitizeOnce \/ SanitizeAgain

SpecSanitize == InitSanitize /\ [][NextSanitize]_vars

(***************************************************************************)
(* The runs with the output pattern "/" and a profile with an empty        *)
(* extension: the path of every track is "/.", which has no parent.        *)
(***************************************************************************)
InitRoot ==
    /\ pc = "login"
    /\ cli \in [output : {Some(<<"/">>)}, skip_existing : BOOLEAN,
                encoding_profile : {Some("bare")},
                external_cover_art : {None, Some(<<"c">>)}]
    /\ resource_type \in ResourceTypes
    /\ platform = "unix"
    /\ tpl = NoTemplate
    /\ san = NoSanitize
    /\ Idle

\* the steps of main that these runs come to
NextRoot ==
    \/ Login
    \/ CompilePath
    \/ SelectProfile
    \/ SelectQuality
    \/ CompileArgs
    \/ ResolveTracks
    \/ FetchContainer
    \/ GetTrackFetch
    \/ GetTrackSleep
    \/ ResolveTrack
    \/ BatchStart
    \/ LoopNext
    \/ DtPath
    \/ LoopMatch
    \/ Summary

SpecRoot == InitRoot /\ [][NextRoot]_vars

(***************************************************************************)
(* Properties of the batch and of the resolver, under Spec                 *)
(***************************************************************************)
\* the statements of download from the batch counters on
BatchPcs ==
    {"batch", "loop", "dt_path", "dt_skip", "dt_file", "dt_key", "dt_stream",
     "dt_cover", "dt_args", "dt_spawn", "dt_discard", "dt_copy", "dt_wait",
     "dt_finish", "loop_match", "summary", "done"}

\* the positions of the runs that ended with the outcome o
Ended(o) == {i \in 1..Len(runs) : runs[i].outcome = o}

\* the identifiers of the runs among the first n that ended FAILED
RECURSIVE FailedIds(_)
FailedIds(n) ==
    IF n = 0 THEN <<>>
    ELSE IF runs[n].outcome = "FAILED"
    THEN Append(FailedIds(n - 1), runs[n].id)
    ELSE FailedIds(n - 1)

\* C1: the batch loop calls download_track once for every position of the
\* resolved list, one position after the other; once the loop is over
\* every position has been called, whatever the earlier calls returned;
\* and the run never ends in an error after a pipeline has been started.
C1_BatchFaultIsolation ==
    /\ Len(runs) <= Len(tracks)
    /\ \A i \in 1..Len(runs) : runs[i].seq = i
    /\ pc = "loop" => Len(runs) = seq
    /\ pc \in {"summary", "done"} =>
          /\ Len(runs) = Len(tracks)
          /\ \A i \in 1..Len(runs) : runs[i].outcome # "RUNNING"
    /\ runs # <<>> => pc # "failed" /\ failure = ""

\* C1 witness: a batch of three is over, its second pipeline failed and
\* its first and third succeeded
C1_Witness ==
    /\ pc = "done"
    /\ Len(tracks) = 3
    /\ <<runs[1].outcome, runs[2].outcome, runs[3].outcome>> =
          <<"SUCCESS", "FAILED", "SUCCESS">>

\* the identifiers that the resolution of member m may give
FromMember(m) ==
    {m} \cup {TrackMeta[m].alternatives[k] :
                 k \in 1..Len(TrackMeta[m].alternatives)}

\* C2: the i-th resolved track comes from the i-th member of the
\* container, the i-th pipeline is called with the i-th resolved track and
\* the sequence number i, and no pipeline is called while an earlier one
\* has not returned.
C2_OrderPreserved ==
    /\ Len(tracks) <= Len(members)
    /\ \A i \in 1..Len(tracks) : tracks[i] \in FromMember(members[i])
    /\ pc \in BatchPcs => Len(tracks) = Len(members)
    /\ \A i \in 1..Len(runs) :
          /\ runs[i].id = tracks[i]
          /\ runs[i].seq = i
          /\ i < Len(runs) => runs[i].outcome # "RUNNING"

\* C2 witness: a container whose members are not in the order of their
\* identifiers has been resolved and downloaded to the end
C2_Witness ==
    /\ pc = "done"
    /\ members = <<3, 1, 2>>
    /\ Len(runs) = 3

\* C3: between two pipelines and after the loop, skipped counts the
\* pipelines that ended SKIPPED, errors holds the identifier of every
\* pipeline that ended FAILED, in order, every pipeline ended in one of
\* the three outcomes, and the successes are the rest; the last line
\* reports these counts.
C3_OutcomeAccounting ==
    pc \in {"loop", "summary", "done"} =>
       /\ skipped = Cardinality(Ended("SKIPPED"))
       /\ errors = FailedIds(Len(runs))
       /\ Len(errors) = Cardinality(Ended("FAILED"))
       /\ \A i \in 1..Len(runs) :
             runs[i].outcome \in {"SUCCESS", "SKIPPED", "FAILED"}
       /\ Cardinality(Ended("SUCCESS")) = Len(runs) - skipped - Len(errors)
       /\ pc = "done" =>
             report = Some([skipped |-> skipped,
                            error_count |-> Len(errors)])

\* C3 witness: a batch is over with a success, a skip and a failure
C3_Witness ==
    /\ pc = "done"
    /\ Ended("SUCCESS") # {}
    /\ Ended("SKIPPED") # {}
    /\ Ended("FAILED") # {}

\* C4: the skip check of a pipeline ends it SKIPPED, with Ok(false), when
\* skip_existing is set and the destination exists, and then the pipeline
\* has made no network request, staged no cover and spawned no encoder;
\* otherwise the pipeline goes on to the selection of the file and leaves
\* the destination as it is.  No pipeline ends SKIPPED without the flag.
C4_SkipPolicy ==
    /\ [](\A i \in 1..Len(runs) :
             runs[i].outcome = "SKIPPED" => cli.skip_existing)
    /\ [][(pc = "dt_skip" /\ pc' # "dt_skip") =>
             IF cli.skip_existing /\ dest # "absent"
             THEN /\ pc' = "loop_match"
                  /\ result' = Some(Ok(FALSE))
                  /\ runs'[Len(runs')].outcome = "SKIPPED"
                  /\ tnet' = {} /\ net' = net
                  /\ cover' = None /\ extCover' = extCover
                  /\ stdin' = "none" /\ child' = None
                  /\ CurSeq \notin orphans'
                  /\ dest' = dest
             ELSE /\ pc' = "dt_file"
                  /\ runs' = runs
                  /\ dest' = dest]_vars

\* C4 witness: a pipeline has returned Ok(false) for a destination that
\* was there, with no network request of its own
C4_Witness ==
    /\ pc = "loop_match"
    /\ result = Some(Ok(FALSE))
    /\ dest = "old"
    /\ tnet = {}

\* C5: in a call of get_track, every resource-exhausted answer is followed
\* by one sleep and one more fetch: when the call returns, it has slept as
\* often as it was rate-limited and fetched once more than that, and what
\* it returns is the track or an error other than the rate limit.
C5_RateLimitRetry ==
    /\ pc = "get_track" => attempts = rateLimited /\ waits = rateLimited
    /\ pc = "backoff" => attempts = rateLimited /\ waits = rateLimited - 1
    /\ pc = "gt_ret" =>
          /\ attempts = rateLimited + 1
          /\ waits = rateLimited
          /\ gtResult \in {"ok", "other"}

\* C5 witness: get_track returns the track after MaxRateLimits
\* resource-exhausted answers
C5_Witness ==
    /\ pc = "gt_ret"
    /\ gtResult = "ok"
    /\ rateLimited = MaxRateLimits
    /\ waits = MaxRateLimits
    /\ attempts = MaxRateLimits + 1

\* C6: the run never ends with the resource-exhausted answer of the
\* service as its error.
C6_RateLimitNeverSurfaced == ~(pc = "failed" /\ failure = "rate_limited")

\* the track expected for member m: the first alternative it names, or
\* itself when it names none
FirstAlternativeOrSelf(m) ==
    IF TrackMeta[m].alternatives = <<>> THEN m
    ELSE TrackMeta[m].alternatives[1]

\* C7: every resolved track is the track of the first alternative of its
\* member, or of the member itself when that names no alternative, and
\* get_track is only ever called for a member or for the first
\* alternative of a member.
C7_AlternativeOneLevel ==
    /\ \A i \in 1..Len(tracks) :
          i <= Len(members) /\ tracks[i] = FirstAlternativeOrSelf(members[i])
    /\ pc \in {"get_track", "backoff", "gt_ret"} =>
          /\ Len(tracks) < Len(members)
          /\ LET m == members[Len(tracks) + 1]
             IN \/ phase = "primary" /\ cur = m
                \/ /\ phase = "alternative"
                   /\ TrackMeta[m].alternatives # <<>>
                   /\ cur = TrackMeta[m].alternatives[1]

\* C7 witness: member 1 has been resolved to its first alternative, track
\* 2, which names an alternative of its own
C7_Witness ==
    /\ pc = "batch"
    /\ \E i \in 1..Len(tracks) :
          /\ members[i] = 1
          /\ tracks[i] = 2
          /\ TrackMeta[2].alternatives # <<>>

\* C8: a run that ended in an error has started no pipeline, holds no
\* track list and made no request but the login and the metadata fetches;
\* and the batch is only ever entered with every member resolved.
C8_ResolutionAllOrNothing ==
    /\ pc = "failed" =>
          /\ runs = <<>>
          /\ tracks = <<>>
          /\ report = None
          /\ net \subseteq {"login", "metadata"}
    /\ pc \in BatchPcs => failure = "" /\ Len(tracks) = Len(members)

\* C8 witness: the fetch of the third member of a container failed after
\* two members had been resolved
C8_Witness ==
    /\ pc = "failed"
    /\ failure = "fetch"
    /\ Len(members) = 3
    /\ phase = "primary"
    /\ cur = members[3]

\* C9: when the run ends in a configuration error, no network request has
\* been made.
C9_ConfigErrorBeforeNetwork ==
    (pc = "failed" /\ failure \in {"template", "profile", "quality"}) =>
       net = {}

\* what does hold of a configuration error: the login is the only network
\* request before it
ConfigErrorAfterLoginOnly ==
    (pc = "failed" /\ failure \in {"template", "profile", "quality"}) =>
       net = {"login"} /\ runs = <<>> /\ members = <<>>

(***************************************************************************)
(* Properties of the template engine, under SpecTemplate                   *)
(***************************************************************************)
\* the pattern holds a marker with no code of the closed set after it
BadMarker(p) ==
    \E i \in 1..Len(p) :
       /\ p[i] = "%"
       /\ \/ i = Len(p)
          \/ p[i + 1] \notin {"a", "t", "b", "s", "n", "d", "l", "y", "p"}

\* C10: compile returns its error exactly for the patterns with a marker
\* that no code follows, never panics, and a template that compiled is
\* rendered without an error.
C10_CompileFailsExactly ==
    /\ pc \in {"tpl_resolve", "tpl_done"} =>
          ~BadMarker(tpl.pattern) /\ tpl.compiled[1].ok
    /\ pc = "tpl_failed" =>
          BadMarker(tpl.pattern) /\ ~tpl.compiled[1].panic
    /\ pc = "tpl_done" => tpl.output[1].ok

\* C10 witness: compile has refused a pattern that ends in a marker after
\* a marker with a code
C10_Witness ==
    /\ pc = "tpl_failed"
    /\ tpl.pattern = <<"%", "t", "%">>

\* the value that stands for the code c in the field set f: strings as
\* they are, integers in decimal, the sequence number with zeros on its
\* left up to the digit width
FieldValue(c, f) ==
    CASE c = "a" -> f.artists
      [] c = "t" -> f.title
      [] c = "b" -> f.album
      [] c = "s" -> Zeros(f.seq_digits - Len(Decimal(f.seq))) \o Decimal(f.seq)
      [] c = "n" -> DecimalInt(f.track)
      [] c = "d" -> DecimalInt(f.disc)
      [] c = "l" -> f.language
      [] c = "y" -> DecimalInt(f.year)
      [] c = "p" -> f.publisher

\* the pattern p read from its i-th character on: a marker and its code
\* give the value of the field, any other character gives itself
RECURSIVE ReadLeftToRight(_, _, _)
ReadLeftToRight(p, i, f) ==
    IF i > Len(p) THEN <<>>
    ELSE IF p[i] = "%"
    THEN FieldValue(p[i + 1], f) \o ReadLeftToRight(p, i + 2, f)
    ELSE <<p[i]>> \o ReadLeftToRight(p, i + 1, f)

\* C11: for a pattern of literal text and recognized codes, rendering the
\* compiled template gives the pattern read left to right with every
\* placeholder replaced by the value of its field and every literal
\* character kept in its place; the template holds no empty literal.
C11_RoundTrip ==
    (pc = "tpl_done" /\ ~BadMarker(tpl.pattern)) =>
       /\ tpl.output[1].ok
       /\ tpl.output[1].out = ReadLeftToRight(tpl.pattern, 1, tpl.fields[1])
       /\ \A i \in 1..Len(tpl.compiled[1].comps) :
             tpl.compiled[1].comps[i].kind = "Literal" =>
                tpl.compiled[1].comps[i].text # <<>>

\* C11 witness: a literal before the placeholder of the sequence number
\* has been rendered for the third track of a batch of two digits
C11_Witness ==
    /\ pc = "tpl_done"
    /\ tpl.pattern = <<"/", "%", "s">>
    /\ tpl.output[1].out = <<"/", "0", "3">>

(***************************************************************************)
(* Properties of the sequence number, under SpecSeq                        *)
(***************************************************************************)
\* the number of characters of n written in decimal
RECURSIVE DigitWidth(_)
DigitWidth(n) == IF n < 10 THEN 1 ELSE 1 + DigitWidth(n \div 10)

DecimalDigits == {"0", "1", "2", "3", "4", "5", "6", "7", "8", "9"}

\* the number that a string of decimal digits stands for
RECURSIVE NumericValue(_)
NumericValue(s) ==
    IF s = <<>> THEN 0
    ELSE 10 * NumericValue(SubSeq(s, 1, Len(s) - 1))
         + (CHOOSE d \in 0..9 : Digit(d) = <<s[Len(s)]>>)

\* C12: in a batch of N tracks the sequence field of the path of every
\* position i, which the output pattern puts between "m/" and a space, has
\* exactly as many characters as N has decimal digits, all of them digits,
\* and its value is i.
C12_SequencePadding ==
    (pc \in {"dt_skip", "dt_file"}) =>
       LET w == DigitWidth(Len(tracks))
       IN /\ Len(path_string) >= 3 + w
          /\ SubSeq(path_string, 1, 2) = <<"m", "/">>
          /\ \A j \in 3..(2 + w) : path_string[j] \in DecimalDigits
          /\ path_string[3 + w] = " "
          /\ NumericValue(SubSeq(path_string, 3, 2 + w)) = CurSeq

\* C12 witness: the path of the seventh of twelve tracks has been rendered
C12_Witness ==
    /\ pc = "dt_file"
    /\ Len(tracks) = 12
    /\ CurSeq = 7
    /\ path_string = <<"m", "/", "0", "7", " ", "D", ".", "o", "g", "g">>

(***************************************************************************)
(* Properties of sanitize_string, under SpecSanitize                       *)
(***************************************************************************)
\* the characters that may not stand in a field of a path: the separator,
\* and on the stricter platform the other separator, the colon, the glob
\* characters, the quote, the angle brackets and the pipe
Illegal ==
    IF platform = "unix" THEN {"/"}
    ELSE {"/", "\\", ":", "*", "?", "\"", "<", ">", "|"}

\* C13: sanitize_string puts one space in the place of every illegal
\* character and keeps every other character, so the result is as long as
\* the string and holds no illegal character; a string with no illegal
\* character comes back equal, and sanitizing the result again gives the
\* result.
C13_Sanitize ==
    /\ pc \in {"san_again", "san_done"} =>
          LET inp == san.input
              out == san.once[1]
          IN /\ Len(out) = Len(inp)
             /\ \A i \in 1..Len(inp) :
                   out[i] = IF inp[i] \in Illegal THEN " " ELSE inp[i]
             /\ \A i \in 1..Len(out) : out[i] \notin Illegal
             /\ (\A i \in 1..Len(inp) : inp[i] \notin Illegal) => out = inp
    /\ pc = "san_done" => san.twice[1] = san.once[1]

\* C13 witness: on the stricter platform a string with two illegal
\* characters around a letter has been sanitized twice
C13_Witness ==
    /\ pc = "san_done"
    /\ platform = "windows"
    /\ san.input = <<":", "a", "/">>
    /\ san.twice = Some(<<" ", "a", " ">>)

(***************************************************************************)
(* Properties of the pipeline of a track, under Spec                       *)
(***************************************************************************)
\* the priority list of each tier
Ladder ==
    [q \in {320, 160, 96} |->
        CASE q = 320 -> <<"OGG_VORBIS_320", "OGG_VORBIS_160", "OGG_VORBIS_96">>
          [] q = 160 -> <<"OGG_VORBIS_160", "OGG_VORBIS_96">>
          [] q = 96 -> <<"OGG_VORBIS_96">>]

\* the tier of a format tag
Tier(format) ==
    CASE format = "OGG_VORBIS_320" -> 320
      [] format = "OGG_VORBIS_160" -> 160
      [] format = "OGG_VORBIS_96" -> 96

\* the statements of download_track after select_file has returned a file
AfterSelectFile ==
    {"dt_key", "dt_stream", "dt_cover", "dt_args", "dt_spawn", "dt_discard",
     "dt_copy", "dt_wait", "dt_finish"}

\* C14: the priority list of a run is the ladder of the tier of its
\* profile; the file selected for a track is the one of the first tag of
\* the list that the track has, so never of a tier above the requested
\* one, and the lowest tier for a track that has nothing else; the
\* selection fails exactly when the track has no tag of the list.
C14_FormatLadder ==
    /\ allowed_formats # <<>> => allowed_formats = Ladder[profile[1].quality]
    /\ pc \in AfterSelectFile =>
          /\ IsSome(file)
          /\ file[1].track = CurTrack.id
          /\ file[1].format \in CurTrack.files
          /\ Tier(file[1].format) <= profile[1].quality
          /\ \E i \in 1..Len(allowed_formats) :
                /\ allowed_formats[i] = file[1].format
                /\ \A j \in 1..(i - 1) :
                      allowed_formats[j] \notin CurTrack.files
          /\ CurTrack.files = {"OGG_VORBIS_96"} =>
                file[1].format = "OGG_VORBIS_96"
    /\ (pc = "loop_match" /\ result[1].err = "no_file") =>
          \A i \in 1..Len(allowed_formats) :
             allowed_formats[i] \notin CurTrack.files

\* C14 witness: under tier 320 the file of tier 160 has been selected for
\* a track that has the tiers 160 and 96
C14_Witness ==
    /\ pc = "dt_key"
    /\ profile[1].quality = 320
    /\ CurTrack.files = {"OGG_VORBIS_160", "OGG_VORBIS_96"}
    /\ file = Some([track |-> 2, format |-> "OGG_VORBIS_160"])

AliveEncoders == orphans \cup {child[i] : i \in 1..Len(child)}

\* C16: at most one encoder spawned by the run is alive at any moment, and
\* when the pipeline of a track returns its encoder has exited.
C16_OneEncoderAtATime ==
    /\ Cardinality(AliveEncoders) <= 1
    /\ pc \in {"loop_match", "loop", "summary", "done"} => AliveEncoders = {}

\* the ways the subprocess step fails: the spawn, the read of the prefix,
\* the copy, the wait, an exit code that is not zero, a signal
SubprocessFailures == {"spawn", "read", "copy", "wait", "exit_code", "signal"}

\* C17: every failure of the subprocess step reaches the end of the
\* pipeline, which tries to delete the destination and then returns the
\* error of the step, whether or not the deletion worked.
C17_CleanupOnFailure ==
    /\ [](/\ pc = "dt_finish" => task \in SubprocessFailures \cup {"ok"}
          /\ (pc = "loop_match" /\ result[1].err \in SubprocessFailures) =>
                cleanup \in {"removed", "failed"})
    /\ [][/\ (pc \in {"dt_spawn", "dt_discard", "dt_copy", "dt_wait"}
               /\ pc' # pc) =>
                pc' \in {"dt_discard", "dt_copy", "dt_wait", "dt_finish"}
          /\ (pc = "dt_finish" /\ task # "ok" /\ pc' # pc) =>
                /\ pc' = "loop_match"
                /\ cleanup' \in {"removed", "failed"}
                /\ cleanup' = "removed" => dest' = "absent"
                /\ result' = Some(Err(task))
                /\ runs'[Len(runs)].outcome = "FAILED"]_vars

\* C17 witness: the encoder was ended by a signal, the deletion of the
\* destination failed, and the pipeline has returned the error of the step
C17_Witness ==
    /\ pc = "loop_match"
    /\ result = Some(Err("signal"))
    /\ cleanup = "failed"
    /\ dest = "partial"

(***************************************************************************)
(* Properties of a path with no parent, under SpecRoot                     *)
(***************************************************************************)
\* the destination path of the i-th pipeline of the batch
RunPath(i) ==
    PathString(Resolve(path_template,
                       Sanitize(platform,
                                TemplateFields(TrackMeta[runs[i].id],
                                               runs[i].seq,
                                               SeqMaxDigits))).out,
               Config.max_filename_len, profile[1].extension)

\* C18: a pipeline that failed on a path with no parent ends the run: it
\* is the last pipeline of the run, and the run goes on neither to
\* another track nor to the summary.
C18_NoParentIsFatal ==
    \A i \in 1..Len(runs) :
       (runs[i].outcome = "FAILED" /\ ~HasParent(RunPath(i))) =>
          /\ i = Len(runs)
          /\ pc \in {"loop_match", "failed"}

(***************************************************************************)
(* Properties of the cover file and of the streaming step, under Spec      *)
(***************************************************************************)
\* C19: with the name of an external cover file configured and a profile
\* that does not embed, after a batch whose first track has a cover
\* image and was not skipped, the external cover file, if there is one
\* that was not there before the run, holds the highest image of that
\* first track.  All tracks of a batch go to one directory here.
C19_ExternalCoverOfFirstTrack ==
    (/\ pc = "done"
     /\ IsSome(cli.external_cover_art)
     /\ ~profile[1].cover_art
     /\ runs # <<>>
     /\ runs[1].outcome # "SKIPPED"
     /\ TrackMeta[runs[1].id].album.covers # <<>>
     /\ extCover \notin {<<"unknown">>, <<"absent">>, <<"old">>}) =>
       extCover = Image(CoverId(TrackMeta[runs[1].id].album.covers))

\* C20: the copy starts at byte 167 of a stream of L >= 167 bytes and
\* writes the L - 167 bytes up to its end to the input of the encoder;
\* the input is closed by the step that copies the last byte, while the
\* encoder has not been waited for; a pipeline ends SUCCESS only after
\* the encoder exited with status zero, and after an exit code that is
\* not zero or a signal it ends FAILED with that as its error.
C20_StreamingStep ==
    /\ [](/\ pc = "dt_copy" =>
               /\ streamLen >= GarbageLen /\ consumed = GarbageLen
               /\ piped = 0 /\ stdin = "open" /\ IsSome(child)
          /\ pc = "dt_wait" =>
               /\ streamLen >= GarbageLen /\ consumed = streamLen
               /\ piped = streamLen - GarbageLen
               /\ stdin = "closed" /\ IsSome(child)
          /\ (pc = "loop_match" /\ runs[Len(runs)].outcome = "SUCCESS") =>
               /\ task = "ok" /\ dest = "new"
               /\ piped = streamLen - GarbageLen /\ stdin = "closed"
          /\ (pc = "loop_match" /\ task \in {"exit_code", "signal"}) =>
               /\ runs[Len(runs)].outcome = "FAILED"
               /\ result = Some(Err(task)))
    /\ [][/\ (pc = "dt_wait" /\ pc' # pc) =>
                /\ pc' = "dt_finish"
                /\ task' \in {"ok", "exit_code", "signal", "wait"}
                /\ task' = "ok" <=> dest' = "new"
                /\ UNCHANGED <<piped, stdin>>
          /\ (pc = "dt_finish" /\ pc' # pc) =>
                (runs'[Len(runs)].outcome = "SUCCESS" <=> task = "ok")]_vars

\* C20 witness: a stream of 300 bytes has been piped but for its first
\* 167 bytes, and the pipeline has ended SUCCESS
C20_Witness ==
    /\ pc = "loop_match"
    /\ runs[Len(runs)].outcome = "SUCCESS"
    /\ streamLen = 300
    /\ piped = 133
    /\ stdin = "closed"

\* the cover step of the running pipeline takes the external policy
ExternalPolicy ==
    /\ pc = "dt_cover"
    /\ CurTrack.album.covers # <<>>
    /\ ~profile[1].cover_art
    /\ IsSome(cli.external_cover_art)

\* the step finds the external cover file there already: it is known to
\* be there, or the step is the first to look and finds an old one
FoundExisting ==
    \/ extCover \notin {<<"unknown">>, <<"absent">>}
    \/ extCover = <<"unknown">> /\ extCover' = <<"old">>

\* C21: under the external policy a cover file that is there already is
\* left as it is, no image is fetched, nothing is returned and the
\* pipeline goes on to the arguments of the encoder; a file that is not
\* there is created and the image fetched into it; a creation that fails
\* for another reason ends the track FAILED with no image fetched, no file
\* made and no encoder spawned.
C21_ExternalCoverCreation ==
    [][(ExternalPolicy /\ pc' # pc) =>
          /\ FoundExisting =>
                /\ pc' = "dt_args"
                /\ extCover # <<"unknown">> => extCover' = extCover
                /\ net' = net /\ tnet' = tnet
                /\ result' = None
                /\ runs' = runs
          /\ ~FoundExisting =>
                \/ /\ pc' = "loop_match"
                   /\ result' = Some(Err("create_cover"))
                   /\ runs'[Len(runs)].outcome = "FAILED"
                   /\ extCover' = <<"absent">>
                   /\ net' = net /\ tnet' = tnet
                   /\ child' = None /\ stdin' = "none" /\ task' = ""
                \/ /\ "cover" \in tnet'
                   /\ \/ /\ pc' = "dt_args"
                         /\ extCover' = Image(CoverId(CurTrack.album.covers))
                      \/ /\ pc' = "loop_match"
                         /\ result'[1].err \in {"get_image", "write"}
                         /\ extCover' = <<"empty">>]_vars

\* C21 witness: the pipeline of a later track has found the cover file
\* that an earlier track of the batch wrote, fetched nothing and gone on
C21_Witness ==
    /\ pc = "dt_args"
    /\ Len(runs) = 2
    /\ ~profile[1].cover_art
    /\ IsSome(cli.external_cover_art)
    /\ CurTrack.id = 3
    /\ extCover = Image(22)
    /\ "cover" \notin tnet

\* the errors of the steps between the skip check and the arguments of
\* the encoder: the selection of the file, the key, the stream, the cover
EarlyFailures ==
    {"no_file", "key", "cdn_url", "http", "content_length", "get_image",
     "tempfile", "write", "create_cover"}

\* C22: no step from the selection of the file to the cover art spawns an
\* encoder or creates, changes or deletes the destination; a pipeline
\* that has ended FAILED in one of them has spawned no encoder and called
\* no removal, and the destination is as it was found: absent, or the
\* old file.
C22_EarlyFailureKeepsDestination ==
    /\ [](/\ pc \in {"dt_file", "dt_key", "dt_stream", "dt_cover"} =>
               /\ dest \in {"absent", "old"}
               /\ child = None /\ stdin = "none" /\ task = ""
               /\ cleanup = "none"
          /\ (pc = "loop_match" /\ result[1].err \in EarlyFailures) =>
               /\ runs[Len(runs)].outcome = "FAILED"
               /\ dest \in {"absent", "old"}
               /\ child = None /\ stdin = "none" /\ task = ""
               /\ cleanup = "none"
               /\ CurSeq \notin orphans)
    /\ [][(pc \in {"dt_file", "dt_key", "dt_stream", "dt_cover"}) =>
             /\ dest' = dest
             /\ child' = child
             /\ cleanup' = cleanup
             /\ pc' \in {"dt_file", "dt_key", "dt_stream", "dt_cover",
                         "dt_args", "loop_match"}
             /\ stdin' = stdin]_vars

\* C22 witness: without the skip of existing files, the pipeline of a
\* track whose destination was there has ended FAILED at the key, and the
\* old file is still there
C22_Witness ==
    /\ pc = "loop_match"
    /\ ~cli.skip_existing
    /\ result = Some(Err("key"))
    /\ runs[Len(runs)].outcome = "FAILED"
    /\ dest = "old"

=============================================================================
